---- MODULE Spec2Model ----
(***************************************************************************)
(* A model of the AROWSS air-side program (src/src/main.rs with            *)
(* src/src/lib.rs and src/src/utils.rs): the telemetry sender and its      *)
(* three sensor tasks, and the uplink command receiver with its command    *)
(* channel.  Bytes are the integers 0..255.                                *)
(***************************************************************************)
EXTENDS Integers, Sequences, FiniteSets, TLC

VARIABLES
    \* command_receiver, command_loop and the channel between them
    buf,             \* command_receiver: the receive buffer (main.rs:151)
    recv_pc,         \* command_receiver: "read" (waiting in read_u8) or "send" (suspended in send().await)
    pending,         \* command_receiver: the command held while suspended in send, <<c>> or <<>>
    command_queue,   \* the mpsc channel of main.rs:55, oldest command first
    fed,             \* history: every byte read_u8 has returned, in order
    validated,       \* history: every command that passed the checksum and from_u8, in order
    dispatched,      \* history: every command command_loop has taken from the channel, in order
    uplink_code,     \* the ground station: the command code its frames carry in SpecUplink
    \* sending_loop and the three tasks it spawns
    sequence_number, \* sending_loop: the counter of main.rs:92
    packet,          \* sending_loop: the packet last built (main.rs:103), <<p>>, <<>> before the first
    output_packet,   \* sending_loop: the frame last written (main.rs:113-122), <<>> before the first
    warned,          \* sending_loop: whether that frame's tick gave the size warning (main.rs:117-119)
    transport,       \* history: what write_all, send and flush returned on the last tick (main.rs:122, 123, 133)
    gps_slot,        \* the watch channel of main.rs:75, a GpsInfo
    ina_slot,        \* the watch channel of main.rs:80: <<>> is None, <<p>> is Some(p)
    bmp_slot,        \* the watch channel of main.rs:85: <<>> is None, <<e>> is Some(e)
    gps_pc,          \* gps_loop: "start", "running" or "panicked"
    ina_pc,          \* ina_loop: "start", "running", "returned" or "panicked"
    bmp_pc,          \* bmp_loop: "start", "running", "returned" or "panicked"
    gps_buffer,      \* gps_loop: the line buffer (main.rs:224)
    nmea_parser,     \* gps_loop: the fix the NMEA parser has accumulated (main.rs:220)
    parsed_line,     \* history: the string last handed to parse_for_fix (main.rs:261)
    gps_send,        \* history: what gps_loop has sent on its watch channel (main.rs:264)
    gps_read,        \* history: the bytes gps_loop has read (main.rs:226) and its calls of parse_for_fix (main.rs:261)
    ina_send,        \* history: what ina_loop has sent on its watch channel (main.rs:285)
    bmp_send,        \* history: what bmp_loop has sent on its watch channel (main.rs:319)
    \* calls of the library functions
    crc_arr,         \* crc8: the argument
    crc_ret,         \* crc8: what the calls made so far returned, in order
    runcam_ret,      \* runcam.rs crc8: what its calls on crc_arr returned, in order
    validate_ret,    \* TelemetryPacket::validate: <<>>, or <<r>> after a call, r its arguments and result
    \* CommandParser (commands.rs:32-35) and what its commands act on
    relay_pin,       \* CommandParser::relay_pin: the level of the output pin, "low" or "high"
    info_sender,     \* CommandParser::info_sender: the messages sent on the channel, in order
    parser_pc,       \* the machine: "up", or "rebooted" once the reboot trigger was written
    effects,         \* history: the operations on the system that succeeded, in order
    parse_log,       \* history: the calls of parse_command that returned, [data, ret], in order
    \* the runtime of #[tokio::main] (main.rs:29)
    worker_threads,  \* the number of its worker threads, one for each core of the machine
    on_worker        \* the tasks that are on a worker thread in a loop that does not await

uplink_vars == <<buf, recv_pc, pending, command_queue, fed, validated, dispatched, uplink_code>>
gps_vars == <<gps_slot, gps_pc, gps_buffer, nmea_parser, parsed_line, gps_send, gps_read>>
ina_vars == <<ina_slot, ina_pc, ina_send>>
bmp_vars == <<bmp_slot, bmp_pc, bmp_send>>
sender_vars == <<sequence_number, packet, output_packet, warned, transport>>
downlink_vars == <<sender_vars, gps_vars, ina_vars, bmp_vars>>
crc_vars == <<crc_arr, crc_ret, runcam_ret, validate_ret>>
parser_vars == <<relay_pin, info_sender, parser_pc, effects, parse_log>>
call_vars == <<crc_vars, parser_vars>>
runtime_vars == <<worker_threads, on_worker>>
vars == <<uplink_vars, downlink_vars, call_vars, runtime_vars>>

Byte == 0..255

\* b' ' (main.rs:159, 163)
SEPARATOR == 32

-----------------------------------------------------------------------------
(* main.rs: the runtime and its tasks *)

\* The machine whose serial ports main.rs:18 and main.rs:24 name has four
\* cores; the runtime starts one worker thread for each.
BOARD_CORES == 4

\* A worker thread is free to poll a task: the others are held by the tasks
\* that loop on them around a blocking read without an await (main.rs:152-155,
\* 225-228).
FreeWorker == Cardinality(on_worker) < worker_threads

\* The task goes on where it is, on the worker thread it holds, or is polled
\* by a free one.
Runs(task) == task \in on_worker \/ FreeWorker

-----------------------------------------------------------------------------
(* utils.rs: crc8 *)

\* One bit of the u8 operator ^ (utils.rs:8, 11): bit k (a power of two) of a ^ b.
XorBit(a, b, k) == k * ((((a \div k) % 2) + ((b \div k) % 2)) % 2)

\* The u8 operator ^ of utils.rs:8 and utils.rs:11.
XorByte(a, b) ==
    XorBit(a, b, 1) + XorBit(a, b, 2) + XorBit(a, b, 4) + XorBit(a, b, 8)
    + XorBit(a, b, 16) + XorBit(a, b, 32) + XorBit(a, b, 64) + XorBit(a, b, 128)

\* The u8 operator << 1 (utils.rs:11, 13): the bit shifted out is lost.
Shl1(crc) == (crc * 2) % 256

\* The inner loop body with the polynomial 0x07 in place of 0xD5.
crc8_round_poly07(crc) ==
    IF (crc \div 128) % 2 = 1
    THEN XorByte(Shl1(crc), 7)
    ELSE Shl1(crc)

\* The inner loop body with the polynomial 0xD4 in place of 0xD5.
crc8_round_poly_d4(crc) ==
    IF (crc \div 128) % 2 = 1
    THEN XorByte(Shl1(crc), 212)
    ELSE Shl1(crc)

\* One pass of the inner loop body, utils.rs:10-14.
crc8_round(crc) ==
    IF (crc \div 128) % 2 = 1
    THEN XorByte(Shl1(crc), 213)
    ELSE Shl1(crc)

\* for _ in 0..8 (utils.rs:9): n passes of the inner loop body.
RECURSIVE crc8_rounds(_, _)
crc8_rounds(crc, n) == IF n = 0 THEN crc ELSE crc8_round(crc8_rounds(crc, n - 1))

\* ^ and the whole inner loop, evaluated once for every u8 and kept as
\* tuples: entry a + 1 of xor_table is the tuple of a ^ b for b = 0..255,
\* entry crc + 1 of inner_loop_table is the accumulator after the 8 passes.
xor_table == [a \in 1..256 |-> [b \in 1..256 |-> XorByte(a - 1, b - 1)] \o <<>>] \o <<>>
inner_loop_table == [crc \in 1..256 |-> crc8_rounds(crc - 1, 8)] \o <<>>

\* The body of the outer loop, utils.rs:8-15, for one element.
crc8_element(crc, element) == inner_loop_table[xor_table[crc + 1][element + 1] + 1]

\* The outer loop of utils.rs:7-16 over arr: loop[<<first, last, crc>>] is the
\* accumulator after the elements first..last, in order, starting from crc
\* (the elements of the first half, then those of the second).
crc8_loop[arr \in Seq(Byte)] ==
    LET loop[r \in Nat \X Nat \X Byte] ==
            IF r[1] > r[2] THEN r[3]
            ELSE IF r[1] = r[2] THEN crc8_element(r[3], arr[r[1]])
            ELSE loop[<<((r[1] + r[2]) \div 2) + 1, r[2],
                        loop[<<r[1], (r[1] + r[2]) \div 2, r[3]>>]>>]
    IN  loop

\* pub fn crc8(arr: &[u8]) -> u8 (utils.rs:5-18): the accumulator starts at 0.
crc8(arr) == crc8_loop[arr][<<1, Len(arr), 0>>]

-----------------------------------------------------------------------------
(* runcam.rs: crc8 *)

\* The inner loop body of runcam.rs:67-71 with the polynomial 0x07 in place
\* of 0xD5.
runcam_crc8_body_poly07(crc) ==
    IF crc >= 128
    THEN XorByte((crc * 2) % 256, 7)
    ELSE (crc * 2) % 256

\* One pass of the inner loop body, runcam.rs:67-71: crc & 0x80 > 0 is the
\* top bit of the u8, crc << 1 loses it.
runcam_crc8_body(crc) ==
    IF crc >= 128
    THEN XorByte((crc * 2) % 256, 213)
    ELSE (crc * 2) % 256

\* for _ in 0..8 (runcam.rs:66): the accumulator r[1] after r[2] more passes.
runcam_crc8_inner[r \in Byte \X (0..8)] ==
    IF r[2] = 0 THEN r[1] ELSE runcam_crc8_inner[<<runcam_crc8_body(r[1]), r[2] - 1>>]

\* crc ^= element (runcam.rs:65) for the pair <<crc, element>>.
runcam_crc8_xor[r \in Byte \X Byte] == XorByte(r[1], r[2])

\* The outer loop of runcam.rs:64-73 over the first n elements of arr,
\* from let mut crc = 0x00 (runcam.rs:63).
RECURSIVE runcam_crc8_for(_, _)
runcam_crc8_for(arr, n) ==
    IF n = 0 THEN 0
    ELSE runcam_crc8_inner[<<runcam_crc8_xor[<<runcam_crc8_for(arr, n - 1), arr[n]>>], 8>>]

\* fn crc8(arr: &[u8]) -> u8 of runcam.rs:62-76.
runcam_crc8(arr) == runcam_crc8_for(arr, Len(arr))

-----------------------------------------------------------------------------
(* commands.rs: the command enumeration *)

EnableHighPower == 70
DisableHighPower == 80
Reboot == 100
RestartStream == 101
GetIpAddress == 102

\* The discriminants of the command enumeration (commands.rs:11-23).
CommandCodes == {EnableHighPower, DisableHighPower, Reboot, RestartStream, GetIpAddress}

\* from_u8 that gives the first command for a byte that is no command's code.
from_u8_or_first(data) == IF data \in CommandCodes THEN <<data>> ELSE <<EnableHighPower>>

\* from_u8 without the arm of Reboot.
from_u8_without_reboot(data) == IF data \in CommandCodes \ {Reboot} THEN <<data>> ELSE <<>>

\* from_u8 of the derived FromPrimitive (commands.rs:8, main.rs:189):
\* Some(c) is <<c>>, None is <<>>.
from_u8(data) == IF data \in CommandCodes THEN <<data>> ELSE <<>>

-----------------------------------------------------------------------------
(* commands.rs: CommandParser::parse_command *)

\* The strings parse_command sends on the info channel (commands.rs:46, 50,
\* 62, 69); the address is what "hostname -i" printed.
RelayEnabled == "Relay enabled"
RelayDisabled == "Relay disabled"
RestartedStreaming == "Restarted streaming service"
IpAddress == "10.0.0.2"

\* The operations on the system (commands.rs:53-54, 58-61, 65-67).
SysrqReboot == "write b to /proc/sysrq-trigger"
SystemctlRestart == "systemctl restart streaming.service"
HostnameI == "hostname -i"

\* let _ = self.info_sender.send(message): the message is on the channel when
\* the send succeeds, and the result is dropped.
info_send(message, send_ok) == IF send_ok THEN Append(info_sender, message) ELSE info_sender

\* parse_command with the arms of EnableHighPower and DisableHighPower
\* exchanged.
parse_command_swapped(data, io_ok, send_ok) ==
    LET command == from_u8(data)
        ret == IF command = <<>> THEN "Err(Invalid)" ELSE "Ok(())"
    IN  /\ parser_pc = "up"
        /\ UNCHANGED <<uplink_vars, downlink_vars, crc_vars, runtime_vars>>
        /\ parse_log' = Append(parse_log, [data |-> data, ret |-> ret])
        /\ relay_pin' = CASE command = <<DisableHighPower>> -> "high"
                          [] command = <<EnableHighPower>> -> "low"
                          [] OTHER -> relay_pin
        /\ info_sender' = CASE command = <<DisableHighPower>> -> info_send(RelayEnabled, send_ok)
                            [] command = <<EnableHighPower>> -> info_send(RelayDisabled, send_ok)
                            [] OTHER -> info_sender
        /\ UNCHANGED <<parser_pc, effects>>

\* pub async fn parse_command(&mut self, data: u8) (commands.rs:38-76).
\* io_ok: the arm's operation on the system succeeds (the file is created and
\* written, the process is started); send_ok: the send on the info channel
\* succeeds.  Writing the reboot trigger restarts the machine at once: the
\* call does not return.
parse_command(data, io_ok, send_ok) ==
    LET command == from_u8(data)
        returns(ret) == parse_log' = Append(parse_log, [data |-> data, ret |-> ret])
    IN  /\ parser_pc = "up"
        /\ UNCHANGED <<uplink_vars, downlink_vars, crc_vars, runtime_vars>>
        /\ CASE command = <<>> ->
                   \* commands.rs:39-41
                   /\ returns("Err(Invalid)")
                   /\ UNCHANGED <<relay_pin, info_sender, parser_pc, effects>>
             [] command = <<EnableHighPower>> ->
                   \* commands.rs:44-47
                   /\ relay_pin' = "high"
                   /\ info_sender' = info_send(RelayEnabled, send_ok)
                   /\ returns("Ok(())")
                   /\ UNCHANGED <<parser_pc, effects>>
             [] command = <<DisableHighPower>> ->
                   \* commands.rs:48-51
                   /\ relay_pin' = "low"
                   /\ info_sender' = info_send(RelayDisabled, send_ok)
                   /\ returns("Ok(())")
                   /\ UNCHANGED <<parser_pc, effects>>
             [] command = <<Reboot>> ->
                   \* commands.rs:52-56
                   IF io_ok
                   THEN /\ parser_pc' = "rebooted"
                        /\ effects' = Append(effects, SysrqReboot)
                        /\ UNCHANGED <<relay_pin, info_sender, parse_log>>
                   ELSE /\ returns("Ok(())")
                        /\ UNCHANGED <<relay_pin, info_sender, parser_pc, effects>>
             [] command = <<RestartStream>> ->
                   \* commands.rs:57-63
                   /\ effects' = IF io_ok THEN Append(effects, SystemctlRestart) ELSE effects
                   /\ info_sender' = info_send(RestartedStreaming, send_ok)
                   /\ returns("Ok(())")
                   /\ UNCHANGED <<relay_pin, parser_pc>>
             [] command = <<GetIpAddress>> ->
                   \* commands.rs:64-71
                   /\ effects' = IF io_ok THEN Append(effects, HostnameI) ELSE effects
                   /\ info_sender' = IF io_ok THEN info_send(IpAddress, send_ok) ELSE info_sender
                   /\ returns("Ok(())")
                   /\ UNCHANGED <<relay_pin, parser_pc>>

-----------------------------------------------------------------------------
(* main.rs: command_receiver and the command channel *)

\* tokio::sync::mpsc::channel(100) (main.rs:55)
CHANNEL_CAPACITY == 100

\* One pass of the loop of main.rs:152-198 for the byte recv_byte that read_u8
\* returned, up to the next read_u8 or to the suspension in send().await.
command_receiver_byte(recv_byte) ==
    LET pushed == Append(buf, recv_byte)
        data == pushed[1]
        check == pushed[2]
        command == from_u8(data)
    IN  /\ recv_pc = "read"
        /\ Runs("command_receiver")
        /\ fed' = Append(fed, recv_byte)
        /\ UNCHANGED <<dispatched, uplink_code, downlink_vars, call_vars, worker_threads>>
        /\ IF Len(pushed) > 3 \/ (Len(pushed) = 3 /\ pushed[Len(pushed)] # SEPARATOR)
           THEN \* main.rs:159-162
                /\ buf' = <<>>
                /\ on_worker' = on_worker \cup {"command_receiver"}
                /\ UNCHANGED <<recv_pc, pending, command_queue, validated>>
           ELSE IF Len(pushed) < 3 /\ (\E i \in 1..Len(pushed) : pushed[i] = SEPARATOR)
           THEN \* main.rs:163-166
                /\ buf' = <<>>
                /\ on_worker' = on_worker \cup {"command_receiver"}
                /\ UNCHANGED <<recv_pc, pending, command_queue, validated>>
           ELSE IF Len(pushed) # 3
           THEN \* main.rs:167-170
                /\ buf' = pushed
                /\ on_worker' = on_worker \cup {"command_receiver"}
                /\ UNCHANGED <<recv_pc, pending, command_queue, validated>>
           ELSE IF check # crc8(<<data>>)
           THEN \* main.rs:179-186: continue, the buffer is left as it is
                /\ buf' = pushed
                /\ on_worker' = on_worker \cup {"command_receiver"}
                /\ UNCHANGED <<recv_pc, pending, command_queue, validated>>
           ELSE IF command = <<>>
           THEN \* main.rs:193, 197
                /\ buf' = <<>>
                /\ on_worker' = on_worker \cup {"command_receiver"}
                /\ UNCHANGED <<recv_pc, pending, command_queue, validated>>
           ELSE IF Len(command_queue) < CHANNEL_CAPACITY
           THEN \* main.rs:190, 197: the channel has room, send completes
                /\ command_queue' = Append(command_queue, command[1])
                /\ validated' = Append(validated, command[1])
                /\ buf' = <<>>
                /\ on_worker' = on_worker \cup {"command_receiver"}
                /\ UNCHANGED <<recv_pc, pending>>
           ELSE \* main.rs:190: the channel is full, send().await suspends
                /\ recv_pc' = "send"
                /\ pending' = command
                /\ validated' = Append(validated, command[1])
                /\ buf' = pushed
                /\ on_worker' = on_worker \ {"command_receiver"}
                /\ UNCHANGED command_queue

\* A send that gives the command up when it finds the channel full.
command_receiver_send_drops ==
    /\ recv_pc = "send"
    /\ Len(command_queue) < CHANNEL_CAPACITY
    /\ FreeWorker
    /\ pending' = <<>>
    /\ recv_pc' = "read"
    /\ buf' = <<>>
    /\ on_worker' = on_worker \cup {"command_receiver"}
    /\ UNCHANGED <<command_queue, fed, validated, dispatched, uplink_code, downlink_vars, call_vars, worker_threads>>

\* send().await completes once the channel has room (main.rs:190) and a
\* worker thread polls the task again, then main.rs:197 clears the buffer.
command_receiver_send ==
    /\ recv_pc = "send"
    /\ Len(command_queue) < CHANNEL_CAPACITY
    /\ FreeWorker
    /\ command_queue' = Append(command_queue, pending[1])
    /\ pending' = <<>>
    /\ recv_pc' = "read"
    /\ buf' = <<>>
    /\ on_worker' = on_worker \cup {"command_receiver"}
    /\ UNCHANGED <<fed, validated, dispatched, uplink_code, downlink_vars, call_vars, worker_threads>>

\* read_u8 returned Err, the 50 ms timeout of main.rs:42 (main.rs:153-155):
\* continue, straight into the next read.
command_receiver_timeout ==
    /\ recv_pc = "read"
    /\ Runs("command_receiver")
    /\ on_worker' = on_worker \cup {"command_receiver"}
    /\ UNCHANGED <<uplink_vars, downlink_vars, call_vars, worker_threads>>

\* command_loop: takes the oldest command from the channel.
command_loop ==
    /\ command_queue # <<>>
    /\ FreeWorker
    /\ dispatched' = Append(dispatched, Head(command_queue))
    /\ command_queue' = Tail(command_queue)
    /\ UNCHANGED <<buf, recv_pc, pending, fed, validated, uplink_code, downlink_vars, call_vars, runtime_vars>>

-----------------------------------------------------------------------------
(* lib.rs: TelemetryPacket and its serialization *)

\* const PACKET_VERSION: u8 = 2 (lib.rs:10)
PACKET_VERSION == 2

\* The text serde_json writes, as bytes.
\* {"version":
json_open_version == <<123, 34, 118, 101, 114, 115, 105, 111, 110, 34, 58>>
\* ,"seq":
json_seq == <<44, 34, 115, 101, 113, 34, 58>>
\* ,"gps":
json_gps == <<44, 34, 103, 112, 115, 34, 58>>
\* ,"env":
json_env == <<44, 34, 101, 110, 118, 34, 58>>
\* ,"pwr":
json_pwr == <<44, 34, 112, 119, 114, 34, 58>>
\* }
json_close == <<125>>
\* null
json_null == <<110, 117, 108, 108>>
\* {"sats":
json_open_sats == <<123, 34, 115, 97, 116, 115, 34, 58>>
\* ,"latitude":
json_latitude == <<44, 34, 108, 97, 116, 105, 116, 117, 100, 101, 34, 58>>
\* ,"longitude":
json_longitude == <<44, 34, 108, 111, 110, 103, 105, 116, 117, 100, 101, 34, 58>>
\* ,"altitude":
json_altitude == <<44, 34, 97, 108, 116, 105, 116, 117, 100, 101, 34, 58>>
\* {"pres":
json_open_pres == <<123, 34, 112, 114, 101, 115, 34, 58>>
\* ,"temp":
json_temp == <<44, 34, 116, 101, 109, 112, 34, 58>>
\* {"volt":
json_open_volt == <<123, 34, 118, 111, 108, 116, 34, 58>>
\* ,"curr":
json_curr == <<44, 34, 99, 117, 114, 114, 34, 58>>
\* .0
json_point_zero == <<46, 48>>

\* An unsigned integer (u8, u16) in decimal, most significant digit first.
RECURSIVE json_unsigned(_)
json_unsigned(n) ==
    IF n < 10 THEN <<48 + n>> ELSE json_unsigned(n \div 10) \o <<48 + (n % 10)>>

\* A float: the model's floats are whole and not negative, written as "n.0".
json_float(x) == json_unsigned(x) \o json_point_zero

\* An Option<float>: None is null.
json_option_float(o) == IF o = <<>> THEN json_null ELSE json_float(o[1])

\* GpsInfo, the fields gps_loop fills (main.rs:264-269; lib.rs:83-91).
json_GpsInfo(g) ==
    json_open_sats \o json_unsigned(g.sats)
    \o json_latitude \o json_option_float(g.latitude)
    \o json_longitude \o json_option_float(g.longitude)
    \o json_altitude \o json_option_float(g.altitude)
    \o json_close

\* EnvironmentalInfo (lib.rs:73-81).
json_EnvironmentalInfo(e) ==
    json_open_pres \o json_float(e.pressure)
    \o json_temp \o json_float(e.temperature)
    \o json_close

\* PowerInfo (lib.rs:63-71).
json_PowerInfo(p) ==
    json_open_volt \o json_unsigned(p.voltage)
    \o json_curr \o json_unsigned(p.current)
    \o json_close

\* serde_json::to_vec of a TelemetryPacket (lib.rs:16-36, 40): the fields in
\* the order of their declaration, under their serde names.
to_vec(self) ==
    json_open_version \o json_unsigned(self.version)
    \o json_seq \o json_unsigned(self.sequence_number)
    \o json_gps
    \o (IF self.gps = <<>> THEN json_null ELSE json_GpsInfo(self.gps[1]))
    \o json_env
    \o (IF self.environmental_info = <<>> THEN json_null
        ELSE json_EnvironmentalInfo(self.environmental_info[1]))
    \o json_pwr
    \o (IF self.power_info = <<>> THEN json_null
        ELSE json_PowerInfo(self.power_info[1]))
    \o json_close

\* vec_crc with the checksum taken before the closing brace is written.
vec_crc_short(self) ==
    <<to_vec(self), crc8(SubSeq(to_vec(self), 1, Len(to_vec(self)) - 1))>>

\* TelemetryPacket::vec_crc (lib.rs:39-44): the pair (bytes, crc).
vec_crc(self) == <<to_vec(self), crc8(to_vec(self))>>

\* TelemetryPacket::crc (lib.rs:47-50).
crc(self) == crc8(to_vec(self))

\* TelemetryPacket::validate (lib.rs:54-60): to_string has the bytes of to_vec.
validate(self, k) == crc8(to_vec(self)) = k

-----------------------------------------------------------------------------
(* main.rs: sending_loop *)

\* b'\n' (main.rs:115, 233)
NEWLINE == 10

\* const RFD_BAUD: u32 = 57600 (main.rs:19)
RFD_BAUD == 57600

\* const MAX_PACKET_BYTES: usize = (RFD_BAUD as usize / 9) / 4 (main.rs:22)
MAX_PACKET_BYTES == (RFD_BAUD \div 9) \div 4

\* GpsInfo::default() (main.rs:75)
GpsInfo_default == [sats |-> 0, latitude |-> <<>>, longitude |-> <<>>, altitude |-> <<>>]

\* A packet that takes the power record from the packet before it, when there
\* is one, in place of reading the channel again.
build_packet_stale ==
    [version |-> PACKET_VERSION,
     sequence_number |-> sequence_number,
     gps |-> <<gps_slot>>,
     environmental_info |-> bmp_slot,
     power_info |-> IF packet = <<>> THEN ina_slot ELSE packet[1].power_info]

\* The packet of main.rs:103-107 from the three watch channels.  The builder
\* call names no sequence number; the packet carries the loop's counter.
build_packet ==
    [version |-> PACKET_VERSION,
     sequence_number |-> sequence_number,
     gps |-> <<gps_slot>>,
     environmental_info |-> bmp_slot,
     power_info |-> ina_slot]

\* The frame with the separator where the sequence number goes.
build_output_packet_separator(pkt, seq) ==
    LET vc == vec_crc(pkt)
    IN  <<vc[2], SEPARATOR>> \o vc[1] \o <<NEWLINE>>

\* The frame of main.rs:113-115 for the payload packet_bytes and its checksum.
frame(packet_crc, seq, packet_bytes) == <<packet_crc, seq>> \o packet_bytes \o <<NEWLINE>>

\* The frame of main.rs:110-115.
build_output_packet(pkt, seq) ==
    LET vc == vec_crc(pkt)
    IN  frame(vc[2], seq, vc[1])

\* A test that also warns of a frame of exactly MAX_PACKET_BYTES bytes.
size_warning_from_max(frame_bytes) == Len(frame_bytes) >= MAX_PACKET_BYTES

\* The test of main.rs:117: the warning is given when it holds.
size_warning(frame_bytes) == Len(frame_bytes) > MAX_PACKET_BYTES

\* An increment that wraps one short of the u8 range.
wrapping_add_1_short(n) == (n + 1) % 255

\* wrapping_add(1) on the u8 counter (main.rs:134).
wrapping_add_1(n) == (n + 1) % 256

\* The history of the sender's transports: what the three calls returned on
\* the last two ticks, oldest first, TRUE for Ok and FALSE for Err.  It is kept in the specification that looks at it and left empty in
\* the others.
NoWrites == [kept |-> FALSE, results |-> <<>>]
EmptyWrites == [kept |-> TRUE, results |-> <<>>]

\* What rfd_send.write_all, udp_output.send and rfd_send.flush may return.
TransportResults == [write_all : BOOLEAN, send : BOOLEAN, flush : BOOLEAN]

\* The histories after one tick's write_all, send and flush (main.rs:122,
\* 123, 133): each call returns Ok or Err.
written(history) ==
    IF history.kept
    THEN {[history EXCEPT !.results = IF Len(@) < 2 THEN Append(@, r) ELSE <<@[2], r>>] :
              r \in TransportResults}
    ELSE {history}

\* Whether a call of the last tick returned Err.
failed(history) ==
    /\ history.results # <<>>
    /\ LET last == history.results[Len(history.results)]
       IN  ~ (last.write_all /\ last.send /\ last.flush)

\* A sender that leaves its loop when a call on its transports returned Err.
sending_loop_stops_on_error ==
    /\ FreeWorker
    /\ ~ failed(transport)
    /\ packet' = <<build_packet>>
    /\ output_packet' = build_output_packet(build_packet, sequence_number)
    /\ warned' = size_warning(output_packet')
    /\ transport' \in written(transport)
    /\ sequence_number' = wrapping_add_1(sequence_number)
    /\ UNCHANGED <<gps_vars, ina_vars, bmp_vars, uplink_vars, call_vars, runtime_vars>>

\* A sender that waits until the power and environmental slots hold a value.
sending_loop_waits_for_slots ==
    /\ FreeWorker
    /\ ina_slot # <<>>
    /\ bmp_slot # <<>>
    /\ packet' = <<build_packet>>
    /\ output_packet' = build_output_packet(build_packet, sequence_number)
    /\ warned' = size_warning(output_packet')
    /\ transport' \in written(transport)
    /\ sequence_number' = wrapping_add_1(sequence_number)
    /\ UNCHANGED <<gps_vars, ina_vars, bmp_vars, uplink_vars, call_vars, runtime_vars>>

\* One pass of the loop of main.rs:101-137 on a worker thread, from the
\* packet's construction to the wait for the next tick.  The results of write_all, send and flush are
\* dropped (main.rs:122, 123, 133).
sending_loop ==
    /\ FreeWorker
    /\ packet' = <<build_packet>>
    /\ output_packet' = build_output_packet(build_packet, sequence_number)
    /\ warned' = size_warning(output_packet')
    /\ transport' \in written(transport)
    /\ sequence_number' = wrapping_add_1(sequence_number)
    /\ UNCHANGED <<gps_vars, ina_vars, bmp_vars, uplink_vars, call_vars, runtime_vars>>

-----------------------------------------------------------------------------
(* main.rs: the watch channels *)

\* The history of a watch channel's sender: the values sent, the last two of
\* them, oldest first.  It is kept in the specification that looks at it and
\* left empty in the others.
NoHistory == [kept |-> FALSE, sent |-> <<>>]
EmptyHistory == [kept |-> TRUE, sent |-> <<>>]

\* The bound of a history: the last two elements of s.
LastTwo(s) == IF Len(s) <= 2 THEN s ELSE SubSeq(s, Len(s) - 1, Len(s))

\* The history after data.send(value) (main.rs:264, 285, 319).
send(history, value) ==
    IF history.kept THEN [history EXCEPT !.sent = LastTwo(Append(@, value))] ELSE history

-----------------------------------------------------------------------------
(* main.rs: ina_loop *)

\* What a read of the INA219 returns: <<>> is Err, <<v>> is Ok(v).
BusVoltageReads == {<<>>, <<7400>>}
CurrentReads == {<<150>>}

\* unwrap_or_default() (main.rs:286, 287): the default reading is 0.
unwrap_or_default(r) == IF r = <<>> THEN 0 ELSE r[1]

\* ina_loop up to its loop (main.rs:276-280): I2cdev::new(..).unwrap()
\* panics, SyncIna219::new fails and the task returns, or the loop is entered.
ina_loop_start ==
    /\ ina_pc = "start"
    /\ FreeWorker
    /\ ina_pc' \in {"panicked", "returned", "running"}
    /\ UNCHANGED <<ina_slot, ina_send, sender_vars, gps_vars, bmp_vars, uplink_vars, call_vars, runtime_vars>>

\* One pass of the loop of main.rs:282-289 with the two reads' results.
ina_loop_poll(bus_voltage, current_raw) ==
    /\ ina_pc = "running"
    /\ FreeWorker
    /\ ina_slot' = <<[voltage |-> unwrap_or_default(bus_voltage),
                      current |-> unwrap_or_default(current_raw)]>>
    /\ ina_send' = send(ina_send, ina_slot')
    /\ UNCHANGED <<ina_pc, sender_vars, gps_vars, bmp_vars, uplink_vars, call_vars, runtime_vars>>

ina_loop == \E v \in BusVoltageReads, c \in CurrentReads : ina_loop_poll(v, c)

-----------------------------------------------------------------------------
(* main.rs: bmp_loop *)

\* What sensor_values() returns: <<>> is Err, <<e>> is Ok(e).
SensorValues == {<<>>, <<[pressure |-> 1013, temperature |-> 21]>>}

\* A start that publishes a zeroed reading when the device fails to initialize.
bmp_loop_start_publishes_default ==
    /\ bmp_pc = "start"
    /\ FreeWorker
    /\ bmp_pc' \in {"panicked", "returned", "running"}
    /\ bmp_slot' = IF bmp_pc' = "running" THEN bmp_slot
                   ELSE <<[pressure |-> 0, temperature |-> 0]>>
    /\ UNCHANGED <<bmp_send, sender_vars, gps_vars, ina_vars, uplink_vars, call_vars, runtime_vars>>

\* bmp_loop up to its loop (main.rs:295-312): an unwrap panics (main.rs:295,
\* 303, 310-312), BMP388::new_blocking fails and the task returns, or the loop
\* is entered.
bmp_loop_start ==
    /\ bmp_pc = "start"
    /\ FreeWorker
    /\ bmp_pc' \in {"panicked", "returned", "running"}
    /\ UNCHANGED <<bmp_slot, bmp_send, sender_vars, gps_vars, ina_vars, uplink_vars, call_vars, runtime_vars>>

\* One pass of the loop of main.rs:314-323: sensor_values().unwrap() panics
\* on Err.
bmp_loop_poll(sensor_values) ==
    /\ bmp_pc = "running"
    /\ FreeWorker
    /\ IF sensor_values = <<>>
       THEN bmp_pc' = "panicked" /\ UNCHANGED <<bmp_slot, bmp_send>>
       ELSE /\ bmp_slot' = sensor_values
            /\ bmp_send' = send(bmp_send, bmp_slot')
            /\ UNCHANGED bmp_pc
    /\ UNCHANGED <<sender_vars, gps_vars, ina_vars, uplink_vars, call_vars, runtime_vars>>

bmp_loop == \E s \in SensorValues : bmp_loop_poll(s)

-----------------------------------------------------------------------------
(* main.rs: gps_loop *)

\* b'$' (main.rs:239, 241)
DOLLAR == 36

\* The fixes the NMEA parser may hold after parse_for_fix: none, latitude and
\* longitude only, all three.
ParserFixes ==
    { GpsInfo_default,
      [sats |-> 4, latitude |-> <<40>>, longitude |-> <<96>>, altitude |-> <<>>],
      [sats |-> 7, latitude |-> <<40>>, longitude |-> <<96>>, altitude |-> <<350>>] }

\* char::is_whitespace on the bytes of a line: tab, LF, VT, FF, CR, space.
is_whitespace(b) == b \in {9, 10, 11, 12, 13, 32}

\* str::trim_end (main.rs:252).
RECURSIVE trim_end(_)
trim_end(s) ==
    IF s # <<>> /\ is_whitespace(s[Len(s)]) THEN trim_end(SubSeq(s, 1, Len(s) - 1)) ELSE s

\* U+FFFD REPLACEMENT CHARACTER in UTF-8.
REPLACEMENT == <<239, 191, 189>>

\* The bytes that no UTF-8 encoding contains.
NeverUtf8 == {192, 193} \cup (245..255)

\* String::from_utf8_lossy(&buffer) (main.rs:251), as bytes, for a buffer of
\* ASCII bytes and bytes of NeverUtf8: each of the latter becomes U+FFFD.
RECURSIVE from_utf8_lossy(_)
from_utf8_lossy(s) ==
    IF s = <<>> THEN <<>>
    ELSE (IF s[1] \in NeverUtf8 THEN REPLACEMENT ELSE <<s[1]>>)
             \o from_utf8_lossy(SubSeq(s, 2, Len(s)))

\* Lines 251-252 of main.rs: the string of the buffer, trimmed.
new_string_of(buffer) == trim_end(from_utf8_lossy(buffer))

\* position(|c| *c == b'$') (main.rs:241): 0 when there is none, else the
\* 1-based index of the first.
RECURSIVE position_from(_, _)
position_from(s, i) ==
    IF i > Len(s) THEN 0 ELSE IF s[i] = DOLLAR THEN i ELSE position_from(s, i + 1)

\* gps_loop up to its loop (main.rs:206-222): an unwrap panics, or the loop
\* is entered, which the task never leaves and in which it never awaits.
gps_loop_start ==
    /\ gps_pc = "start"
    /\ FreeWorker
    /\ gps_pc' \in {"panicked", "running"}
    /\ on_worker' = IF gps_pc' = "running" THEN on_worker \cup {"gps_loop"} ELSE on_worker
    /\ UNCHANGED <<gps_slot, gps_buffer, nmea_parser, parsed_line, gps_send, gps_read,
                   sender_vars, ina_vars, bmp_vars, uplink_vars, call_vars, worker_threads>>

\* The history of gps_loop: the bytes read and the calls of parse_for_fix, each
\* with the string handed and whether it returned Ok.  It is kept in the
\* specification that looks at it and left empty in the others.
NoReads == [kept |-> FALSE, bytes |-> <<>>, parses |-> <<>>]
EmptyReads == [kept |-> TRUE, bytes |-> <<>>, parses |-> <<>>]

\* The history after read_u8 returned new_byte (main.rs:226).
read_u8(history, new_byte) ==
    IF history.kept THEN [history EXCEPT !.bytes = Append(@, new_byte)] ELSE history

\* The history after parse_for_fix(new_string) returned (main.rs:261).
parse_for_fix(history, new_string, ok) ==
    IF history.kept
    THEN [history EXCEPT !.parses = Append(@, [new_string |-> new_string, ok |-> ok])]
    ELSE history

\* A record that leaves the altitude out.
GpsInfo_without_altitude(parser) ==
    [sats |-> parser.sats, latitude |-> parser.latitude,
     longitude |-> parser.longitude, altitude |-> <<>>]

\* The GpsInfo of main.rs:264-269, of what the parser holds.
GpsInfo(parser) ==
    [sats |-> parser.sats, latitude |-> parser.latitude,
     longitude |-> parser.longitude, altitude |-> parser.altitude]

\* One pass of the loop of main.rs:225-270 for the byte new_byte that read_u8
\* returned; ok is whether parse_for_fix returns Ok, fix is what the parser
\* then holds; after Err it holds what it held.
gps_loop_byte(new_byte, ok, fix) ==
    /\ gps_pc = "running"
    /\ "gps_loop" \in on_worker
    /\ UNCHANGED <<gps_pc, sender_vars, ina_vars, bmp_vars, uplink_vars, call_vars, runtime_vars>>
    /\ IF new_byte # NEWLINE
       THEN \* main.rs:233-236
            /\ gps_buffer' = Append(gps_buffer, new_byte)
            /\ gps_read' = read_u8(gps_read, new_byte)
            /\ UNCHANGED <<gps_slot, nmea_parser, parsed_line, gps_send>>
       ELSE IF gps_buffer = <<>> \/ gps_buffer[1] # DOLLAR
       THEN \* main.rs:239-248
            /\ gps_buffer' = IF position_from(gps_buffer, 1) # 0
                             THEN SubSeq(gps_buffer, position_from(gps_buffer, 1), Len(gps_buffer))
                             ELSE <<>>
            /\ gps_read' = read_u8(gps_read, new_byte)
            /\ UNCHANGED <<gps_slot, nmea_parser, parsed_line, gps_send>>
       ELSE IF new_string_of(gps_buffer) = <<>>
       THEN \* main.rs:251-257
            /\ gps_buffer' = <<>>
            /\ gps_read' = read_u8(gps_read, new_byte)
            /\ UNCHANGED <<gps_slot, nmea_parser, parsed_line, gps_send>>
       ELSE \* main.rs:251-253, 261-269
            /\ gps_buffer' = <<>>
            /\ parsed_line' = new_string_of(gps_buffer)
            /\ gps_read' = parse_for_fix(read_u8(gps_read, new_byte), parsed_line', ok)
            /\ nmea_parser' = IF ok THEN fix ELSE nmea_parser
            /\ gps_slot' = GpsInfo(nmea_parser')
            /\ gps_send' = send(gps_send, gps_slot')

\* The GPS delivers well-formed lines, "$" and the terminator; a line changes
\* the parser's fix or fails to parse and leaves it.
gps_loop ==
    \E ok \in BOOLEAN, fix \in ParserFixes :
        gps_loop_byte(IF gps_buffer = <<>> THEN DOLLAR ELSE NEWLINE, ok, fix)

\* read_u8 returned Err, the 1000 ms timeout of main.rs:207 (main.rs:226-228):
\* continue, straight into the next read.
gps_loop_timeout ==
    /\ gps_pc = "running"
    /\ "gps_loop" \in on_worker
    /\ UNCHANGED vars

-----------------------------------------------------------------------------
(* The program after main has spawned its tasks (main.rs:52-57, 75-92) *)

InitUplink ==
    /\ buf = <<>>
    /\ recv_pc = "read"
    /\ pending = <<>>
    /\ command_queue = <<>>
    /\ fed = <<>>
    /\ validated = <<>>
    /\ dispatched = <<>>

\* sending_loop up to its loop (main.rs:74-92); history is the state of the
\* three histories.
InitSendingLoop(history) ==
    /\ sequence_number = 0
    /\ packet = <<>>
    /\ output_packet = <<>>
    /\ warned = FALSE
    /\ transport = NoWrites
    /\ gps_slot = GpsInfo_default
    /\ ina_slot = <<>>
    /\ bmp_slot = <<>>
    /\ gps_pc = "start"
    /\ ina_pc = "start"
    /\ bmp_pc = "start"
    /\ gps_buffer = <<>>
    /\ nmea_parser = GpsInfo_default
    /\ parsed_line = <<>>
    /\ gps_send = history
    /\ gps_read = NoReads
    /\ ina_send = history
    /\ bmp_send = history

InitDownlink == InitSendingLoop(NoHistory)

\* The runtime as main enters it: no task has been polled yet.
InitRuntime(threads) ==
    /\ worker_threads = threads
    /\ on_worker = {}

\* The CommandParser as it is constructed: the relay pin is an output driven
\* low (air_side.rs:130-133), nothing was sent on the info channel.
InitParser ==
    /\ relay_pin = "low"
    /\ info_sender = <<>>
    /\ parser_pc = "up"
    /\ effects = <<>>
    /\ parse_log = <<>>

Init ==
    /\ InitUplink
    /\ uplink_code = EnableHighPower
    /\ InitDownlink
    /\ crc_arr = <<>>
    /\ crc_ret = <<>>
    /\ runcam_ret = <<>>
    /\ validate_ret = <<>>
    /\ InitParser
    /\ InitRuntime(BOARD_CORES)

-----------------------------------------------------------------------------
(* The whole program: every task, the uplink delivering any byte.  The      *)
(* specifications below are this one with the inputs and the number of       *)
(* steps bounded.                                                            *)

Next ==
    \/ \E b \in Byte : command_receiver_byte(b)
    \/ command_receiver_send
    \/ command_receiver_timeout
    \/ command_loop
    \/ sending_loop
    \/ gps_loop_start
    \/ gps_loop
    \/ gps_loop_timeout
    \/ ina_loop_start
    \/ ina_loop
    \/ bmp_loop_start
    \/ bmp_loop

Spec == Init /\ [][Next]_vars /\ WF_vars(sending_loop)

-----------------------------------------------------------------------------
(* The command receiver fed arbitrary bytes *)

\* The codes the ground station may send: the enumeration's and one that is
\* not in it.
GroundCodes == CommandCodes \cup {71}

\* The bytes the uplink delivers: the bytes of the ground station's frame and
\* a byte of noise.
UplinkBytes == {uplink_code, crc8(<<uplink_code>>), SEPARATOR, 0}

\* How many bytes the uplink delivers.
MaxFed == 8

Uplink == \E b \in UplinkBytes : Len(fed) < MaxFed /\ command_receiver_byte(b)

NextUplink ==
    \/ Uplink
    \/ command_receiver_timeout

\* The program at start, and the code the ground station has chosen to send.
InitGround ==
    /\ InitUplink
    /\ uplink_code \in GroundCodes
    /\ InitDownlink
    /\ crc_arr = <<>>
    /\ crc_ret = <<>>
    /\ runcam_ret = <<>>
    /\ validate_ret = <<>>
    /\ InitParser
    /\ InitRuntime(BOARD_CORES)

SpecUplink == InitGround /\ [][NextUplink]_vars

-----------------------------------------------------------------------------
(* The command receiver fed well-formed frames, and the dispatcher *)

\* The ground station sends a frame for each command in turn, over and over.
GroundCommands == <<EnableHighPower, DisableHighPower, Reboot, RestartStream, GetIpAddress>>

\* How many frames it sends.
MaxUplinkFrames == 102

\* Byte n (from 1) of that stream.
GroundByte(n) ==
    LET code == GroundCommands[(((n - 1) \div 3) % Len(GroundCommands)) + 1]
    IN  CASE (n - 1) % 3 = 0 -> code
          [] (n - 1) % 3 = 1 -> crc8(<<code>>)
          [] OTHER -> SEPARATOR

GroundFrames ==
    /\ Len(fed) < 3 * MaxUplinkFrames
    /\ command_receiver_byte(GroundByte(Len(fed) + 1))

NextQueue ==
    \/ GroundFrames
    \/ command_receiver_send
    \/ command_receiver_timeout
    \/ command_loop

SpecQueue == Init /\ [][NextQueue]_vars

-----------------------------------------------------------------------------
(* A call of crc8 *)

\* The arguments of the call: the sequences of at most MaxCrcLen bytes of CrcBytes,
CrcBytes == {0, 1, 71, 128, 213, 255}
MaxCrcLen == 3
\* and the ASCII string "123456789".
CheckString == <<49, 50, 51, 52, 53, 54, 55, 56, 57>>
CrcArrs == UNION {[1..n -> CrcBytes] : n \in 0..MaxCrcLen} \cup {CheckString}

\* crc8 is called on crc_arr, at most twice.
crc8_call ==
    /\ Len(crc_ret) < 2
    /\ crc_ret' = Append(crc_ret, crc8(crc_arr))
    /\ UNCHANGED <<crc_arr, runcam_ret, validate_ret, parser_vars, uplink_vars, downlink_vars, runtime_vars>>

\* The program at start, and the argument of the call.
InitCrc ==
    /\ InitUplink
    /\ uplink_code = EnableHighPower
    /\ InitDownlink
    /\ crc_arr \in CrcArrs
    /\ crc_ret = <<>>
    /\ runcam_ret = <<>>
    /\ validate_ret = <<>>
    /\ InitParser
    /\ InitRuntime(BOARD_CORES)

SpecCrc == InitCrc /\ [][crc8_call]_vars

-----------------------------------------------------------------------------
(* The two crc8 functions on the same argument *)

\* The first byte of a packet to the camera (runcam.rs:21, 36).
RUNCAM_HEADER == 204

\* CommandIds (runcam.rs:45-51) and ControlActions (runcam.rs:54-60).
CommandIds == 0..4
ControlActions == 0..4

\* What runcam.rs checksums: the data of get_camera_information
\* (runcam.rs:21) and of write_camera_control (runcam.rs:36).
RuncamData ==
    {<<RUNCAM_HEADER, id>> : id \in CommandIds}
    \cup {<<RUNCAM_HEADER, id, action>> : id \in CommandIds, action \in ControlActions}

\* runcam.rs's crc8 is called on crc_arr, at most twice.
runcam_crc8_call ==
    /\ Len(runcam_ret) < 2
    /\ runcam_ret' = Append(runcam_ret, runcam_crc8(crc_arr))
    /\ UNCHANGED <<crc_arr, crc_ret, validate_ret, parser_vars, uplink_vars, downlink_vars, runtime_vars>>

NextBothCrc ==
    \/ crc8_call
    \/ runcam_crc8_call

\* The program at start, and the argument of the calls: one of CrcArrs or of
\* RuncamData.
InitBothCrc ==
    /\ InitUplink
    /\ uplink_code = EnableHighPower
    /\ InitDownlink
    /\ crc_arr \in CrcArrs \cup RuncamData
    /\ crc_ret = <<>>
    /\ runcam_ret = <<>>
    /\ validate_ret = <<>>
    /\ InitParser
    /\ InitRuntime(BOARD_CORES)

SpecBothCrc == InitBothCrc /\ [][NextBothCrc]_vars

-----------------------------------------------------------------------------
(* The sender and its sensor tasks *)

\* The sender and its three sensor tasks, for the first MaxTicks frames.
MaxTicks == 3

NextDownlink ==
    \/ sequence_number < MaxTicks /\ sending_loop
    \/ gps_loop_start
    \/ gps_loop
    \/ ina_loop_start
    \/ ina_loop
    \/ bmp_loop_start
    \/ bmp_loop

SpecDownlink == Init /\ [][NextDownlink]_vars

\* The sender for ever, with its sensor tasks running until the first frame
\* and stopped from then on.
NextSender ==
    \/ sending_loop
    \/ output_packet = <<>> /\ gps_loop_start
    \/ output_packet = <<>> /\ gps_loop
    \/ output_packet = <<>> /\ ina_loop_start
    \/ output_packet = <<>> /\ ina_loop
    \/ output_packet = <<>> /\ bmp_loop_start
    \/ output_packet = <<>> /\ bmp_loop

SpecSender == Init /\ [][NextSender]_vars

\* The sender for ever, scheduled fairly.  Each sensor task fails at its start
\* or enters its loop; the INA219 and BMP388 tasks poll until the first frame
\* and publish nothing from then on; the GPS task reads no complete line.
NextLive ==
    \/ sending_loop
    \/ output_packet = <<>> /\ gps_loop_start
    \/ output_packet = <<>> /\ ina_loop_start
    \/ output_packet = <<>> /\ ina_loop
    \/ output_packet = <<>> /\ bmp_loop_start
    \/ output_packet = <<>> /\ bmp_loop

SpecLive == Init /\ [][NextLive]_vars /\ WF_vars(sending_loop)

-----------------------------------------------------------------------------
(* Every byte as a command code: the receiver fed its frame, the parser    *)
(* called on it                                                             *)

\* The ground station sends the frame of uplink_code, any byte, and then the
\* frame of EnableHighPower.
CodeStream == <<uplink_code, crc8(<<uplink_code>>), SEPARATOR,
                EnableHighPower, crc8(<<EnableHighPower>>), SEPARATOR>>

CodeFrames ==
    /\ Len(fed) < Len(CodeStream)
    /\ command_receiver_byte(CodeStream[Len(fed) + 1])

\* How many times parse_command is called.
MaxParses == 2

\* parse_command is called on EnableHighPower or on uplink_code.
CodeParses ==
    \E data \in {EnableHighPower, uplink_code}, io_ok \in BOOLEAN, send_ok \in BOOLEAN :
        /\ Len(parse_log) < MaxParses
        /\ parse_command(data, io_ok, send_ok)

NextCodes ==
    \/ CodeFrames
    \/ CodeParses

\* The program at start, and the byte the ground station sends as a code.
InitCodes ==
    /\ InitUplink
    /\ uplink_code \in Byte
    /\ InitDownlink
    /\ crc_arr = <<>>
    /\ crc_ret = <<>>
    /\ runcam_ret = <<>>
    /\ validate_ret = <<>>
    /\ InitParser
    /\ InitRuntime(BOARD_CORES)

SpecCodes == InitCodes /\ [][NextCodes]_vars

-----------------------------------------------------------------------------
(* The sender and its sensor tasks, with the histories of the watch channels *)

\* How many times the sender reads the channels.
MaxBorrows == 2

NextSlots ==
    \/ sequence_number < MaxBorrows /\ sending_loop
    \/ gps_loop_start
    \/ gps_loop
    \/ ina_loop_start
    \/ ina_loop
    \/ bmp_loop_start
    \/ bmp_loop

InitSlots ==
    /\ InitUplink
    /\ uplink_code = EnableHighPower
    /\ InitSendingLoop(EmptyHistory)
    /\ crc_arr = <<>>
    /\ crc_ret = <<>>
    /\ runcam_ret = <<>>
    /\ validate_ret = <<>>
    /\ InitParser
    /\ InitRuntime(BOARD_CORES)

SpecSlots == InitSlots /\ [][NextSlots]_vars

-----------------------------------------------------------------------------
(* All the tasks on the worker threads of the runtime, the GPS silent and   *)
(* the ground station silent after one frame                                *)

\* The sender's first MaxTicks frames.
TaskTicks == sequence_number < MaxTicks /\ sending_loop

\* The ground station sends one frame.
TaskFrame ==
    /\ Len(fed) < 3
    /\ command_receiver_byte(GroundByte(Len(fed) + 1))

NextTasks ==
    \/ TaskTicks
    \/ gps_loop_start
    \/ gps_loop_timeout
    \/ ina_loop_start
    \/ ina_loop
    \/ bmp_loop_start
    \/ bmp_loop
    \/ TaskFrame
    \/ command_receiver_timeout
    \/ command_loop

\* The program at start on a machine that gives the runtime one to four
\* cores.
InitTasks ==
    /\ InitUplink
    /\ uplink_code = EnableHighPower
    /\ InitDownlink
    /\ crc_arr = <<>>
    /\ crc_ret = <<>>
    /\ runcam_ret = <<>>
    /\ validate_ret = <<>>
    /\ InitParser
    /\ \E threads \in 1..BOARD_CORES : InitRuntime(threads)

\* The runtime polls a task that is ready to run when a worker thread is
\* free for it, and the frame sent arrives.
SpecTasks ==
    /\ InitTasks
    /\ [][NextTasks]_vars
    /\ WF_vars(TaskTicks)
    /\ WF_vars(gps_loop_start)
    /\ WF_vars(ina_loop_start)
    /\ WF_vars(ina_loop)
    /\ WF_vars(bmp_loop_start)
    /\ WF_vars(bmp_loop)
    /\ WF_vars(TaskFrame)
    /\ WF_vars(command_receiver_timeout)
    /\ WF_vars(command_loop)

-----------------------------------------------------------------------------
(* The command receiver after any bytes: two frames back to back *)

\* How many bytes the uplink delivers before the two frames.
MaxNoise == 4

\* Any bytes: those of the frame of uplink_code and a byte of noise.
ResyncNoise ==
    \E b \in UplinkBytes : Len(fed) < MaxNoise /\ command_receiver_byte(b)

\* Then the ground station sends the frame of a command and right after it
\* the frame of a command: the code, the checksum of the code just sent, the
\* separator.
ResyncFrames ==
    \E c \in CommandCodes :
        /\ Len(fed) \in MaxNoise..(MaxNoise + 5)
        /\ command_receiver_byte(
               CASE (Len(fed) - MaxNoise) % 3 = 0 -> c
                 [] (Len(fed) - MaxNoise) % 3 = 1 -> crc8(<<fed[Len(fed)]>>)
                 [] OTHER -> SEPARATOR)

NextResync ==
    \/ ResyncNoise
    \/ ResyncFrames
    \/ command_receiver_timeout

\* The program at start; the bytes before the frames are those of SpecUplink
\* for EnableHighPower.
InitResync ==
    /\ InitUplink
    /\ uplink_code = EnableHighPower
    /\ InitDownlink
    /\ crc_arr = <<>>
    /\ crc_ret = <<>>
    /\ runcam_ret = <<>>
    /\ validate_ret = <<>>
    /\ InitParser
    /\ InitRuntime(BOARD_CORES)

SpecResync == InitResync /\ [][NextResync]_vars

-----------------------------------------------------------------------------
(* The CommandParser given any commands *)

\* How many times parse_command is called.
MaxCommands == 3

\* parse_command is called on a recognized code or on 71; its operation on
\* the system and its send on the info channel succeed or fail.
ParserCalls ==
    \E data \in GroundCodes, io_ok \in BOOLEAN, send_ok \in BOOLEAN :
        /\ Len(parse_log) < MaxCommands
        /\ parse_command(data, io_ok, send_ok)

\* The program at start, with its CommandParser.
InitCommands ==
    /\ InitUplink
    /\ uplink_code = EnableHighPower
    /\ InitDownlink
    /\ crc_arr = <<>>
    /\ crc_ret = <<>>
    /\ runcam_ret = <<>>
    /\ validate_ret = <<>>
    /\ InitParser
    /\ InitRuntime(BOARD_CORES)

SpecCommands == InitCommands /\ [][ParserCalls]_vars

-----------------------------------------------------------------------------
(* gps_loop reading any bytes *)

\* The bytes the GPS port delivers: '$', the terminator, 'G', '\r', and a
\* byte damaged on the line.
GpsBytes == {DOLLAR, NEWLINE, 71, 13, 255}

\* How many bytes it delivers.
MaxGpsRead == 6

GpsReads ==
    \E new_byte \in GpsBytes, ok \in BOOLEAN, fix \in ParserFixes :
        /\ Len(gps_read.bytes) < MaxGpsRead
        /\ gps_loop_byte(new_byte, ok, fix)

NextGps ==
    \/ gps_loop_start
    \/ GpsReads
    \/ gps_loop_timeout

\* The program after sending_loop has spawned gps_loop, the histories kept.
InitGps ==
    /\ InitUplink
    /\ uplink_code = EnableHighPower
    /\ sequence_number = 0
    /\ packet = <<>>
    /\ output_packet = <<>>
    /\ warned = FALSE
    /\ transport = NoWrites
    /\ gps_slot = GpsInfo_default
    /\ ina_slot = <<>>
    /\ bmp_slot = <<>>
    /\ gps_pc = "start"
    /\ ina_pc = "start"
    /\ bmp_pc = "start"
    /\ gps_buffer = <<>>
    /\ nmea_parser = GpsInfo_default
    /\ parsed_line = <<>>
    /\ gps_send = EmptyHistory
    /\ gps_read = EmptyReads
    /\ ina_send = NoHistory
    /\ bmp_send = NoHistory
    /\ crc_arr = <<>>
    /\ crc_ret = <<>>
    /\ runcam_ret = <<>>
    /\ validate_ret = <<>>
    /\ InitParser
    /\ InitRuntime(BOARD_CORES)

SpecGps == InitGps /\ [][NextGps]_vars

-----------------------------------------------------------------------------
(* The sender with transports that fail *)

\* The first MaxTicks ticks of the sender; the INA219 task publishes between
\* them.
NextTransport ==
    \/ sequence_number < MaxTicks /\ sending_loop
    \/ ina_loop_start
    \/ ina_loop

\* The program after main has spawned its tasks, the history of the
\* transports kept.
InitTransport ==
    /\ InitUplink
    /\ uplink_code = EnableHighPower
    /\ sequence_number = 0
    /\ packet = <<>>
    /\ output_packet = <<>>
    /\ warned = FALSE
    /\ transport = EmptyWrites
    /\ gps_slot = GpsInfo_default
    /\ ina_slot = <<>>
    /\ bmp_slot = <<>>
    /\ gps_pc = "start"
    /\ ina_pc = "start"
    /\ bmp_pc = "start"
    /\ gps_buffer = <<>>
    /\ nmea_parser = GpsInfo_default
    /\ parsed_line = <<>>
    /\ gps_send = NoHistory
    /\ gps_read = NoReads
    /\ ina_send = NoHistory
    /\ bmp_send = NoHistory
    /\ crc_arr = <<>>
    /\ crc_ret = <<>>
    /\ runcam_ret = <<>>
    /\ validate_ret = <<>>
    /\ InitParser
    /\ InitRuntime(BOARD_CORES)

SpecTransport == InitTransport /\ [][NextTransport]_vars

-----------------------------------------------------------------------------
(* The command receiver and a frame whose command byte was corrupted *)

\* The ground station sent the frame of uplink_code; the link delivers another
\* byte in place of the command byte, then the checksum byte and the
\* separator as they were sent.
CorruptedFrame ==
    /\ Len(fed) < 3
    /\ \E recv_byte \in Byte :
           /\ Len(fed) = 0 => recv_byte # uplink_code
           /\ Len(fed) = 1 => recv_byte = crc8(<<uplink_code>>)
           /\ Len(fed) = 2 => recv_byte = SEPARATOR
           /\ command_receiver_byte(recv_byte)

\* The program at start, and the byte the ground station sends as a code.
InitCorrupted ==
    /\ InitUplink
    /\ uplink_code \in Byte
    /\ InitDownlink
    /\ crc_arr = <<>>
    /\ crc_ret = <<>>
    /\ runcam_ret = <<>>
    /\ validate_ret = <<>>
    /\ InitParser
    /\ InitRuntime(BOARD_CORES)

SpecCorrupted == InitCorrupted /\ [][CorruptedFrame]_vars

-----------------------------------------------------------------------------
(* The frame of a payload of any length *)

\* The lengths of the payload: none, one byte, and those about the maximum.
PayloadLens == {0, 1} \cup ((MAX_PACKET_BYTES - 5)..(MAX_PACKET_BYTES + 2))

\* The payloads: a length of PayloadLens of one byte of PayloadBytes.
PayloadBytes == {SEPARATOR, NEWLINE, 125}
Payloads == {[i \in 1..n |-> b] : n \in PayloadLens, b \in PayloadBytes}

\* main.rs:110-122 of one tick for the serialized packet crc_arr: the frame
\* is built, the size is tested, the frame is written.
frame_call ==
    /\ output_packet = <<>>
    /\ output_packet' = frame(crc8(crc_arr), sequence_number, crc_arr)
    /\ warned' = size_warning(output_packet')
    /\ UNCHANGED <<sequence_number, packet, transport, gps_vars, ina_vars, bmp_vars,
                   uplink_vars, call_vars, runtime_vars>>

\* The sender at a tick, and the serialized packet of that tick.
InitFrame ==
    /\ InitUplink
    /\ uplink_code = EnableHighPower
    /\ packet = <<>>
    /\ output_packet = <<>>
    /\ warned = FALSE
    /\ transport = NoWrites
    /\ sequence_number \in {0, SEPARATOR, 255}
    /\ gps_slot = GpsInfo_default
    /\ ina_slot = <<>>
    /\ bmp_slot = <<>>
    /\ gps_pc = "start"
    /\ ina_pc = "start"
    /\ bmp_pc = "start"
    /\ gps_buffer = <<>>
    /\ nmea_parser = GpsInfo_default
    /\ parsed_line = <<>>
    /\ gps_send = NoHistory
    /\ gps_read = NoReads
    /\ ina_send = NoHistory
    /\ bmp_send = NoHistory
    /\ crc_arr \in Payloads
    /\ crc_ret = <<>>
    /\ runcam_ret = <<>>
    /\ validate_ret = <<>>
    /\ InitParser
    /\ InitRuntime(BOARD_CORES)

SpecFrame == InitFrame /\ [][frame_call]_vars

-----------------------------------------------------------------------------
(* The first frame, and a call of validate on its packet *)

\* packet.validate(crc) is called once, on the packet the sender has built.
validate_call(crc_arg) ==
    /\ packet # <<>>
    /\ validate_ret = <<>>
    /\ validate_ret' = <<[self |-> packet[1],
                          crc |-> crc_arg,
                          ret |-> validate(packet[1], crc_arg)]>>
    /\ UNCHANGED <<crc_arr, crc_ret, runcam_ret, parser_vars, uplink_vars, downlink_vars, runtime_vars>>

NextValidate ==
    \/ output_packet = <<>> /\ sending_loop
    \/ output_packet = <<>> /\ gps_loop_start
    \/ output_packet = <<>> /\ gps_loop
    \/ output_packet = <<>> /\ ina_loop_start
    \/ output_packet = <<>> /\ ina_loop
    \/ output_packet = <<>> /\ bmp_loop_start
    \/ output_packet = <<>> /\ bmp_loop
    \/ \E k \in Byte : validate_call(k)

SpecValidate == Init /\ [][NextValidate]_vars

-----------------------------------------------------------------------------
(* Properties of the command receiver *)

\* The frame of code c: the code, its checksum, the separator.
UplinkFrame(c) == <<c, crc8(<<c>>), SEPARATOR>>

\* C1: from an empty receive buffer, the three bytes [c, crc8([c]), 0x20] of a
\* recognized code c put exactly one command on the command channel, the
\* command of code c, and leave the receive buffer empty; the first two bytes
\* alone put nothing on it.
C1_UplinkRoundTrip ==
    \A c \in CommandCodes :
        /\ fed = UplinkFrame(c) =>
               /\ command_queue = <<c>>
               /\ validated = <<c>>
               /\ buf = <<>>
               /\ recv_pc = "read"
        /\ fed \in {<<c>>, <<c, crc8(<<c>>)>>} => command_queue = <<>>

\* C1: the whole frame of a recognized code has been received and its command
\* is on the channel.
C1_Witness ==
    /\ uplink_code = Reboot
    /\ fed = UplinkFrame(Reboot)
    /\ command_queue = <<Reboot>>

\* C2, as the specification states it: whenever the receiver, holding two
\* bytes [c, k] with k # crc8([c]), receives the separator, no command is put
\* on the channel and the receive buffer is empty when it waits for its next
\* byte.
C2_CorruptFrameDiscarded ==
    [][(/\ Len(fed') = Len(fed) + 1
        /\ fed'[Len(fed')] = SEPARATOR
        /\ Len(buf) = 2
        /\ buf[2] # crc8(<<buf[1]>>)) =>
           (/\ command_queue' = command_queue
            /\ recv_pc' = "read"
            /\ buf' = <<>>)]_vars

\* s holds no three bytes in a row that are a code, its checksum and the
\* separator.
NoValidFrame(s) ==
    \A i \in 1..(Len(s) - 2) :
        ~(s[i + 1] = crc8(<<s[i]>>) /\ s[i + 2] = SEPARATOR)

\* C3, as the specification states it: after five bytes that hold no valid
\* frame, followed by the frame of a recognized code, exactly one command is
\* on the channel.
C3_ResyncAfterJunk ==
    \A c \in CommandCodes :
        (/\ Len(fed) = 8
         /\ NoValidFrame(SubSeq(fed, 1, 5))
         /\ SubSeq(fed, 6, 8) = UplinkFrame(c)) =>
            command_queue = <<c>>

-----------------------------------------------------------------------------
(* Properties of the sender *)

C5_SequenceNumbers ==
    [][sender_vars' # sender_vars =>
          /\ output_packet'[2] =
                 (IF output_packet = <<>> THEN 0 ELSE (output_packet[2] + 1) % 256)
          /\ sequence_number' \in Byte
          /\ sequence_number' = (sequence_number + 1) % 256]_vars

\* C5: the frame numbered 255 has been emitted and the counter is back at 0.
C5_Witness ==
    /\ output_packet # <<>>
    /\ output_packet[2] = 255
    /\ sequence_number = 0

\* The frame written on a tick is one checksum byte, the byte second, the
\* serialized packet of that tick and the terminator, and nothing else.
FrameLayout(second) ==
    sender_vars' # sender_vars =>
        /\ Len(output_packet') = Len(to_vec(build_packet)) + 3
        /\ output_packet'[1] \in Byte
        /\ output_packet'[2] = second
        /\ SubSeq(output_packet', 3, Len(output_packet') - 1) = to_vec(build_packet)
        /\ output_packet'[Len(output_packet')] = NEWLINE

\* C6, as amended: every frame is, in order, one checksum byte, the sequence
\* number of the tick as one byte, the serialized packet payload bytes and
\* the terminator 0x0A, with nothing else in between.
C6_FrameLayout == [][FrameLayout(sequence_number)]_vars

\* C6: a frame whose second byte is its sequence number and not the separator.
C6_Witness ==
    /\ Len(output_packet) > 3
    /\ output_packet[2] = 7
    /\ sequence_number = 8
    /\ output_packet[Len(output_packet)] = NEWLINE

\* C6, as the specification states it: the second byte of every frame is the
\* separator 0x20.
C6_SeparatorLayout == [][FrameLayout(SEPARATOR)]_vars

\* C7: the checksum byte of a frame is crc8 of exactly the payload bytes that
\* frame carries, which are the bytes vec_crc returned with it for the packet
\* of the tick; and p.validate(k) is true for k = p.crc() and false for every
\* other k.
C7_ChecksumCoverage ==
    [][/\ sender_vars' # sender_vars =>
              /\ output_packet'[1] =
                     crc8(SubSeq(output_packet', 3, Len(output_packet') - 1))
              /\ SubSeq(output_packet', 3, Len(output_packet') - 1) = to_vec(packet'[1])
              /\ vec_crc(packet'[1]) = <<to_vec(packet'[1]), output_packet'[1]>>
       /\ validate_ret' # validate_ret =>
              (validate_ret'[1].ret <=>
                   validate_ret'[1].crc = crc(validate_ret'[1].self))]_vars

\* C7: the frame carries readings of all three sensors, and validate has
\* accepted its checksum byte for its packet.
C7_Witness ==
    /\ Len(output_packet) > 3
    /\ packet[1].gps[1].altitude # <<>>
    /\ packet[1].power_info # <<>>
    /\ packet[1].environmental_info # <<>>
    /\ validate_ret # <<>>
    /\ validate_ret[1].self = packet[1]
    /\ validate_ret[1].crc = output_packet[1]
    /\ validate_ret[1].ret

-----------------------------------------------------------------------------
(* Properties of crc8 *)

\* The 8-bit CRC as the specification words it, on tuples of 8 bits: bit 0
\* first, the high bit (0x80) last.
ToBits(n) ==
    <<n % 2, (n \div 2) % 2, (n \div 4) % 2, (n \div 8) % 2,
      (n \div 16) % 2, (n \div 32) % 2, (n \div 64) % 2, (n \div 128) % 2>>
FromBits(v) ==
    v[1] + 2 * v[2] + 4 * v[3] + 8 * v[4] + 16 * v[5] + 32 * v[6] + 64 * v[7] + 128 * v[8]
BitXor(a, b) == IF a = b THEN 0 ELSE 1
BitsXor(u, v) ==
    <<BitXor(u[1], v[1]), BitXor(u[2], v[2]), BitXor(u[3], v[3]), BitXor(u[4], v[4]),
      BitXor(u[5], v[5]), BitXor(u[6], v[6]), BitXor(u[7], v[7]), BitXor(u[8], v[8])>>
BitsShiftLeft(v) == <<0, v[1], v[2], v[3], v[4], v[5], v[6], v[7]>>
Bits == [1..8 -> {0, 1}]
BitsRound[v \in Bits] ==
    IF v[8] = 1 THEN BitsXor(BitsShiftLeft(v), ToBits(213)) ELSE BitsShiftLeft(v)
BitsRounds[v \in Bits] ==
    BitsRound[BitsRound[BitsRound[BitsRound[BitsRound[BitsRound[BitsRound[BitsRound[v]]]]]]]]
BitsCrc[arr \in Seq(Byte)] ==
    IF arr = <<>> THEN ToBits(0)
    ELSE BitsRounds[BitsXor(BitsCrc[SubSeq(arr, 1, Len(arr) - 1)], ToBits(arr[Len(arr)]))]

\* C8: every call of crc8 returns the byte the specified CRC gives for its
\* argument (accumulator from 0; per byte an XOR into it and 8 rounds of shift
\* left, truncate, XOR with 0xD5 when bit 0x80 was set; nothing after), two
\* calls on the same argument return the same byte, the empty sequence gives
\* 0, and "123456789" gives 0xBC.
C8_Crc8 ==
    \A i \in 1..Len(crc_ret) :
        /\ crc_ret[i] \in Byte
        /\ crc_ret[i] = FromBits(BitsCrc[crc_arr])
        /\ crc_ret[i] = crc_ret[1]
        /\ crc_arr = <<>> => crc_ret[i] = 0
        /\ crc_arr = CheckString => crc_ret[i] = 188

\* C8: crc8 has been called twice on three bytes that set and clear the high
\* bit of the accumulator.
C8_Witness ==
    /\ crc_arr = <<71, 128, 255>>
    /\ Len(crc_ret) = 2
    /\ crc_ret[2] = FromBits(BitsCrc[<<71, 128, 255>>])

-----------------------------------------------------------------------------
(* Properties of the command channel *)

\* C9: the commands the dispatcher has taken, those in the channel and the
\* one a suspended send holds are, in this order, exactly the commands the
\* receiver has validated; the channel never holds more than 100; and the
\* receiver is suspended in send exactly while it holds a validated command
\* that found the channel full.
C9_OrderAndBackpressure ==
    /\ validated = dispatched \o command_queue \o pending
    /\ Len(command_queue) <= CHANNEL_CAPACITY
    /\ Len(pending) <= 1
    /\ (recv_pc = "send") <=> (pending # <<>>)
    /\ \A i \in 1..Len(validated) : validated[i] = fed[3 * i - 2]

\* C9: the channel is full, the receiver is suspended in send with the next
\* validated command, and the dispatcher has taken a command.
C9_Witness ==
    /\ Len(command_queue) = CHANNEL_CAPACITY
    /\ recv_pc = "send"
    /\ pending = <<validated[Len(validated)]>>
    /\ dispatched # <<>>

-----------------------------------------------------------------------------
(* Properties of the sensor tasks *)

\* C10, as the specification states it: a pass of ina_loop or of bmp_loop
\* whose read fails leaves the task's slot as it was and the task running.
C10_ReadFailureSkipsCycle ==
    [][/\ (\E c \in CurrentReads : ina_loop_poll(<<>>, c)) =>
              (ina_slot' = ina_slot /\ ina_pc' = "running")
       /\ bmp_loop_poll(<<>>) =>
              (bmp_slot' = bmp_slot /\ bmp_pc' = "running")]_vars

-----------------------------------------------------------------------------
(* Properties of the sensor tasks' initialization *)

\* A task that has ended: it returned or it panicked.
Terminated == {"returned", "panicked"}

\* t occurs in s as a run of consecutive bytes.
IsInfix(t, s) ==
    \E i \in 1..(Len(s) - Len(t) + 1) : SubSeq(s, i, i + Len(t) - 1) = t

\* What holds of every step for the INA219 and BMP388 tasks: a task that ends
\* in its initialization leaves its slot None; an ended task stays ended and
\* its slot is never written again; a frame built while the slot of an ended
\* task is None carries that record as null; and a task that is in its loop
\* can publish, whatever has become of the others, and writes its own slot
\* only.
OptionSlotsIsolated ==
    /\ (ina_pc = "start" /\ ina_pc' \in Terminated) => ina_slot' = <<>>
    /\ (bmp_pc = "start" /\ bmp_pc' \in Terminated) => bmp_slot' = <<>>
    /\ ina_pc \in Terminated => (ina_pc' = ina_pc /\ ina_slot' = ina_slot)
    /\ bmp_pc \in Terminated => (bmp_pc' = bmp_pc /\ bmp_slot' = bmp_slot)
    /\ (sender_vars' # sender_vars /\ ina_pc \in Terminated /\ ina_slot = <<>>) =>
           /\ packet'[1].power_info = <<>>
           /\ IsInfix(json_pwr \o json_null, output_packet')
    /\ (sender_vars' # sender_vars /\ bmp_pc \in Terminated /\ bmp_slot = <<>>) =>
           /\ packet'[1].environmental_info = <<>>
           /\ IsInfix(json_env \o json_null, output_packet')
    /\ ina_pc = "running" => ENABLED ina_loop
    /\ bmp_pc = "running" => ENABLED bmp_loop
    /\ gps_pc = "running" => ENABLED gps_loop
    /\ ina_slot' # ina_slot => (ina_pc = "running" /\ bmp_vars' = bmp_vars /\ gps_vars' = gps_vars)
    /\ bmp_slot' # bmp_slot => (bmp_pc = "running" /\ ina_vars' = ina_vars /\ gps_vars' = gps_vars)
    /\ gps_slot' # gps_slot => (gps_pc = "running" /\ ina_vars' = ina_vars /\ bmp_vars' = bmp_vars)

-----------------------------------------------------------------------------
(* Properties of the watch channels *)

\* What borrow() returns on a channel created with the value initial, given
\* the history of its sender: the value sent last, the initial one if none was.
LastSent(history, initial) ==
    IF history.sent = <<>> THEN initial ELSE history.sent[Len(history.sent)]

\* C12: in every interleaving of the sender with the three sensor tasks, each
\* read of a watch channel by sending_loop returns exactly the value its
\* task sent last (the initial value if it sent none), all fields from that
\* one send; in particular after send(A), send(B) the read returns B.  A
\* channel holds the value sent last at every moment.
C12_SlotCoalescing ==
    [][/\ sender_vars' # sender_vars =>
              /\ packet'[1].gps = <<LastSent(gps_send, GpsInfo_default)>>
              /\ packet'[1].power_info = LastSent(ina_send, <<>>)
              /\ packet'[1].environmental_info = LastSent(bmp_send, <<>>)
       /\ gps_slot' = LastSent(gps_send', GpsInfo_default)
       /\ ina_slot' = LastSent(ina_send', <<>>)
       /\ bmp_slot' = LastSent(bmp_send', <<>>)]_vars

\* C12: the GPS task has sent a partial fix and then a full one, the INA219
\* task a zeroed voltage and then a read one, and the one read of the channels
\* since has returned the second of each.
C12_Witness ==
    /\ sequence_number = 1
    /\ gps_send.sent =
           <<[sats |-> 4, latitude |-> <<40>>, longitude |-> <<96>>, altitude |-> <<>>],
             [sats |-> 7, latitude |-> <<40>>, longitude |-> <<96>>, altitude |-> <<350>>]>>
    /\ ina_send.sent = <<<<[voltage |-> 0, current |-> 150]>>,
                         <<[voltage |-> 7400, current |-> 150]>>>>
    /\ packet[1].gps = <<gps_send.sent[2]>>
    /\ packet[1].power_info = ina_send.sent[2]

-----------------------------------------------------------------------------
(* Properties of unknown command codes *)

\* C13: for every byte c that is no code of the command enumeration, the
\* checksum-valid frame [c, crc8([c]), 0x20] fed from an empty buffer puts
\* nothing on the command channel and leaves the buffer empty with the
\* receiver reading on, so that the frame fed next is received;
\* parse_command(c) returns Err(Invalid), leaves the relay as it was and sends
\* no info message; and parse_command can be called on each of the 256 bytes
\* (uplink_code is any of them) without a panic: the call returns, or restarts
\* the machine.
C13_UnknownCode ==
    [][/\ (uplink_code \notin CommandCodes /\ Len(fed') \in 1..3 /\ Len(fed) < Len(fed')) =>
              command_queue' = <<>>
       /\ (uplink_code \notin CommandCodes /\ Len(fed') = 3 /\ Len(fed) = 2) =>
              (buf' = <<>> /\ recv_pc' = "read" /\ validated' = <<>>)
       /\ (uplink_code \notin CommandCodes /\ Len(fed') = 6 /\ Len(fed) = 5) =>
              (command_queue' = <<EnableHighPower>> /\ buf' = <<>>)
       /\ (parse_log' # parse_log
           /\ parse_log'[Len(parse_log')].data \notin CommandCodes) =>
              /\ parse_log' = Append(parse_log, [data |-> uplink_code, ret |-> "Err(Invalid)"])
              /\ relay_pin' = relay_pin
              /\ info_sender' = info_sender
              /\ effects' = effects
              /\ parser_pc' = parser_pc
       /\ parser_pc = "up" =>
              \A io_ok \in BOOLEAN, send_ok \in BOOLEAN :
                  ENABLED parse_command(uplink_code, io_ok, send_ok)
       /\ parser_vars' # parser_vars =>
              (Len(parse_log') = Len(parse_log) + 1 \/ parser_pc' = "rebooted")]_vars

\* C13: the frame of 71, which is no command's code, was fed and then the
\* frame of EnableHighPower, which alone is on the channel; parse_command has
\* set the relay high and then refused 71, and the relay is still high.
C13_Witness ==
    /\ uplink_code = 71
    /\ Len(fed) = 6
    /\ command_queue = <<EnableHighPower>>
    /\ buf = <<>>
    /\ parse_log = <<[data |-> EnableHighPower, ret |-> "Ok(())"],
                     [data |-> 71, ret |-> "Err(Invalid)"]>>
    /\ relay_pin = "high"
    /\ info_sender = <<RelayEnabled>>

-----------------------------------------------------------------------------
(* Properties of the tasks' scheduling *)

\* C14, as the specification states it: while gps_loop waits for a GPS byte
\* and command_receiver for an uplink byte, the other tasks go on: the sender
\* emits its frames, the INA219 and BMP388 tasks that entered their loop
\* publish, and the dispatcher takes the command that is on the channel.
C14_TaskIsolation ==
    /\ <>(sequence_number = MaxTicks)
    /\ (ina_pc = "running") ~> (ina_slot # <<>>)
    /\ (bmp_pc = "running") ~> (bmp_slot # <<>> \/ bmp_pc = "panicked")
    /\ (command_queue # <<>>) ~> (dispatched # <<>>)

-----------------------------------------------------------------------------
(* Properties of the size warning *)

\* The frame written is the frame as built: the checksum of the whole
\* payload, the sequence number, the whole payload, the terminator.
WrittenAsBuilt ==
    /\ Len(output_packet) = Len(crc_arr) + 3
    /\ output_packet[1] = crc8(crc_arr)
    /\ output_packet[2] = sequence_number
    /\ SubSeq(output_packet, 3, Len(output_packet) - 1) = crc_arr
    /\ output_packet[Len(output_packet)] = NEWLINE

-----------------------------------------------------------------------------
(* Properties of the receive buffer *)

\* A buffer that main.rs:144-150 calls invalid: 3 bytes not ending in the
\* separator, more than 3 bytes, or the separator as its first or second byte.
Malformed(b) ==
    \/ Len(b) = 3 /\ b[3] # SEPARATOR
    \/ Len(b) > 3
    \/ \E i \in 1..2 : i <= Len(b) /\ b[i] = SEPARATOR

\* C16: command_receiver puts a command on the channel only in a step in which
\* its buffer is exactly [c, crc8([c]), 0x20] with c a recognized code, and the
\* command is c; in every step in which the buffer, with the byte just
\* received, has 3 bytes without the separator last, has more than 3 bytes, or
\* has the separator as its first or second byte, the buffer is cleared in
\* that step and nothing is put on the channel.
C16_NoSpuriousCommands ==
    [][LET received == Len(fed') > Len(fed)
           pushed == IF received THEN Append(buf, fed'[Len(fed')]) ELSE buf
       IN  /\ command_queue' # command_queue =>
                  \E c \in CommandCodes :
                      /\ pushed = UplinkFrame(c)
                      /\ command_queue' = Append(command_queue, c)
           /\ (received /\ Malformed(pushed)) =>
                  /\ buf' = <<>>
                  /\ command_queue' = command_queue
                  /\ pending' = pending]_vars

\* C16: a frame with a wrong checksum was left in the buffer, the byte after
\* it made 4 bytes and the buffer was cleared with nothing put on the channel;
\* the valid frame that followed put its command there.
C16_Witness ==
    /\ uplink_code = DisableHighPower
    /\ fed = <<DisableHighPower, 0, SEPARATOR, SEPARATOR>> \o UplinkFrame(DisableHighPower)
    /\ command_queue = <<DisableHighPower>>
    /\ buf = <<>>

-----------------------------------------------------------------------------
(* Properties of gps_loop *)

\* The lines of s: the bytes between one terminator and the next, or from
\* the start to the first terminator.
Lines(s) ==
    { SubSeq(s, i, j - 1) : <<i, j>> \in
        { p \in (1..Len(s)) \X (1..Len(s)) :
            /\ p[1] <= p[2]
            /\ s[p[2]] = NEWLINE
            /\ p[1] = 1 \/ s[p[1] - 1] = NEWLINE
            /\ \A k \in p[1]..(p[2] - 1) : s[k] # NEWLINE } }

\* What is left of a line when everything before its first '$' is discarded,
\* nothing when it has none.
FromSentinel(line) ==
    IF position_from(line, 1) = 0 THEN <<>>
    ELSE SubSeq(line, position_from(line, 1), Len(line))

\* C17, as the specification states it: when a terminated line does not
\* start with '$', the buffer keeps what follows the next '$', that included,
\* and nothing when there is none; and every string handed to parse_for_fix
\* starts with '$' and is the string of the bytes of one terminated line of
\* the input, from its '$' on, never of bytes of two lines.
C17_LineResync ==
    /\ [][(/\ gps_read'.bytes = Append(gps_read.bytes, NEWLINE)
           /\ (gps_buffer = <<>> \/ gps_buffer[1] # DOLLAR)) =>
              (/\ gps_buffer' = FromSentinel(gps_buffer)
               /\ gps_read'.parses = gps_read.parses)]_vars
    /\ [](\A i \in 1..Len(gps_read.parses) :
            /\ gps_read.parses[i].new_string[1] = DOLLAR
            /\ \E line \in Lines(gps_read.bytes) :
                   gps_read.parses[i].new_string = new_string_of(FromSentinel(line)))

-----------------------------------------------------------------------------
(* Properties of the CommandParser *)

\* What the relay output is after the calls of log: high when the last call
\* on EnableHighPower or DisableHighPower was on EnableHighPower, low when
\* it was on DisableHighPower or there was none.
RECURSIVE RelayAfter(_)
RelayAfter(log) ==
    IF log = <<>> THEN "low"
    ELSE IF log[Len(log)].data = EnableHighPower THEN "high"
    ELSE IF log[Len(log)].data = DisableHighPower THEN "low"
    ELSE RelayAfter(SubSeq(log, 1, Len(log) - 1))

\* C19: after any sequence of calls of parse_command the relay output is high
\* exactly when the most recent call on EnableHighPower or DisableHighPower
\* was on EnableHighPower, and low when there was none; a call on Reboot,
\* RestartStream or GetIpAddress leaves the relay as it was; and a call on a
\* recognized code never returns an error: it returns Ok(()) whether its
\* operation on the system and its send on the info channel succeed or fail,
\* the one call that does not return being the Reboot that restarts the
\* machine.
C19_ActuatorEffects ==
    /\ [](relay_pin = RelayAfter(parse_log))
    /\ [][/\ parse_log' # parse_log =>
                LET call == parse_log'[Len(parse_log')]
                IN  /\ parse_log' = Append(parse_log, call)
                    /\ call.data \in CommandCodes <=> call.ret = "Ok(())"
                    /\ call.data \in {Reboot, RestartStream, GetIpAddress} =>
                           relay_pin' = relay_pin
                    /\ call.data = EnableHighPower => relay_pin' = "high"
                    /\ call.data = DisableHighPower => relay_pin' = "low"
          /\ parse_log' = parse_log =>
                /\ parser_pc' = "rebooted"
                /\ effects' = Append(effects, SysrqReboot)
                /\ relay_pin' = relay_pin]_vars

\* C19: DisableHighPower, EnableHighPower and RestartStream were processed and
\* each returned Ok(()), although every send on the info channel failed and
\* the service could not be restarted; the relay is high.
C19_Witness ==
    /\ parse_log = <<[data |-> DisableHighPower, ret |-> "Ok(())"],
                     [data |-> EnableHighPower, ret |-> "Ok(())"],
                     [data |-> RestartStream, ret |-> "Ok(())"]>>
    /\ info_sender = <<>>
    /\ effects = <<>>
    /\ relay_pin = "high"

-----------------------------------------------------------------------------
(* Properties of the command receiver after any bytes *)

\* C20: after any bytes fed to command_receiver, when the frames
\* [c, crc8([c]), 0x20] of two recognized codes, with c and crc8([c]) other
\* than 0x20, are fed back to back, the receive buffer is empty after the
\* first and the last byte of the second puts its command on the channel: of
\* the two frames at most the first is lost.
C20_BoundedResync ==
    [][LET first == fed'[MaxNoise + 1]
           second == fed'[MaxNoise + 4]
           goodFrame(c) == c \in CommandCodes /\ c # SEPARATOR /\ crc8(<<c>>) # SEPARATOR
       IN  /\ (/\ Len(fed') = MaxNoise + 3
               /\ Len(fed) = MaxNoise + 2
               /\ SubSeq(fed', MaxNoise + 1, MaxNoise + 3) = UplinkFrame(first)
               /\ goodFrame(first)) =>
                  (/\ buf' = <<>>
                   /\ command_queue' \in {command_queue, Append(command_queue, first)})
           /\ (/\ Len(fed') = MaxNoise + 6
               /\ Len(fed) = MaxNoise + 5
               /\ SubSeq(fed', MaxNoise + 1, MaxNoise + 3) = UplinkFrame(first)
               /\ SubSeq(fed', MaxNoise + 4, MaxNoise + 6) = UplinkFrame(second)
               /\ goodFrame(first)
               /\ goodFrame(second)) =>
                  (/\ command_queue' = Append(command_queue, second)
                   /\ validated' = Append(validated, second)
                   /\ buf' = <<>>)]_vars

\* C20: the bytes before the frames left a frame with a wrong checksum in
\* the buffer; the frame of Reboot after them was lost and the frame of
\* DisableHighPower after it was received.
C20_Witness ==
    /\ Len(fed) = MaxNoise + 6
    /\ SubSeq(fed, MaxNoise - 2, MaxNoise) = <<EnableHighPower, 0, SEPARATOR>>
    /\ SubSeq(fed, MaxNoise + 1, MaxNoise + 6) =
           UplinkFrame(Reboot) \o UplinkFrame(DisableHighPower)
    /\ validated = <<DisableHighPower>>
    /\ command_queue = <<DisableHighPower>>
    /\ buf = <<>>

-----------------------------------------------------------------------------
(* Properties of the frame of any byte *)

\* C21, as amended: for every byte c other than the separator 0x20 and other
\* than 0xD0, the one byte whose checksum is 0x20, the frame
\* [c, crc8([c]), 0x20] fed to command_receiver with an empty buffer is not
\* rejected by the framing rules: after two bytes the buffer holds c and its
\* checksum, and the separator brings the buffer to the checksum comparison,
\* which passes: the buffer is cleared, and the command is put on the channel
\* when c is a recognized code.
C21_FrameReceivable ==
    /\ (uplink_code # SEPARATOR /\ crc8(<<uplink_code>>) = SEPARATOR) => uplink_code = 208
    /\ (uplink_code \notin {SEPARATOR, 208} /\ Len(fed) = 2) =>
           buf = <<uplink_code, crc8(<<uplink_code>>)>>
    /\ (uplink_code \notin {SEPARATOR, 208} /\ Len(fed) = 3) =>
           /\ buf = <<>>
           /\ uplink_code \in CommandCodes => validated = <<uplink_code>>
           /\ uplink_code \notin CommandCodes => validated = <<>>

\* C21: the frame of GetIpAddress has been received whole: its command is on
\* the channel and the buffer is cleared.
C21_Witness ==
    /\ uplink_code = GetIpAddress
    /\ fed = UplinkFrame(GetIpAddress)
    /\ validated = <<GetIpAddress>>
    /\ buf = <<>>

\* C21, as the specification states it: for every byte c other than 0x20 the
\* first two bytes of its frame are held in the buffer until the separator
\* arrives.
C21_EveryCodeReceivable ==
    (uplink_code # SEPARATOR /\ Len(fed) = 2) =>
        buf = <<uplink_code, crc8(<<uplink_code>>)>>

-----------------------------------------------------------------------------
(* Properties of the downlink stream *)

\* C22, as the specification states it: in every frame built by sending_loop
\* the terminator byte 0x0A occurs only as the last byte, whatever the checksum
\* byte and the sequence number are, so that splitting the stream on 0x0A
\* gives one frame per tick.
C22_TerminatorUnique ==
    output_packet # <<>> =>
        /\ output_packet[Len(output_packet)] = NEWLINE
        /\ \A i \in 1..(Len(output_packet) - 1) : output_packet[i] # NEWLINE

-----------------------------------------------------------------------------
(* Properties of the sender's transports *)

\* C23: an Err from write_all, from flush or from the send on the UDP socket
\* does not end sending_loop: after any tick, failed or not, the loop can go
\* round again; the tick on which a call fails still steps the sequence
\* number by 1 modulo 256; and the tick after a failed one builds its frame
\* afresh, from the slots as they are then and with the next sequence number,
\* and does not write the frame that failed again.
C23_WriteFailure ==
    /\ [](ENABLED sending_loop)
    /\ [][sequence_number' # sequence_number =>
             /\ sequence_number' = (sequence_number + 1) % 256
             /\ failed(transport) =>
                    /\ output_packet' = build_output_packet(build_packet, sequence_number)
                    /\ output_packet'[2] = (output_packet[2] + 1) % 256
                    /\ output_packet' # output_packet]_vars

\* C23: on the second tick write_all and flush returned Err; the third tick
\* came all the same, its frame is numbered 2 and carries a power reading, and
\* its calls returned Ok.
C23_Witness ==
    /\ sequence_number = 3
    /\ output_packet # <<>>
    /\ transport.results = <<[write_all |-> FALSE, send |-> TRUE, flush |-> FALSE],
                             [write_all |-> TRUE, send |-> TRUE, flush |-> TRUE]>>
    /\ output_packet[2] = 2
    /\ packet # <<>>
    /\ packet[1].power_info # <<>>

-----------------------------------------------------------------------------
(* Properties of the checksum of one byte *)

\* C24: two different bytes never have the same checksum, crc8([a]) # crc8([b])
\* for a # b; so when the command byte of a frame is replaced on the link by
\* another byte and the checksum byte and the separator arrive as they were
\* sent, command_receiver reads the three bytes and accepts no command:
\* nothing is validated, nothing is put on the channel, no send is pending.
C24_ChecksumInjective ==
    /\ (Len(fed) >= 1 /\ fed[1] # uplink_code) =>
           crc8(<<fed[1]>>) # crc8(<<uplink_code>>)
    /\ Len(fed) = 3 =>
           /\ fed[2] = crc8(<<uplink_code>>)
           /\ fed[3] = SEPARATOR
           /\ validated = <<>>
           /\ command_queue = <<>>
           /\ pending = <<>>
           /\ recv_pc = "read"

\* EnableHighPower was sent and arrived as RestartStream, itself a command
\* code, with the checksum of EnableHighPower: the receiver has read all
\* three bytes and has accepted nothing.
C24_Witness ==
    /\ uplink_code = EnableHighPower
    /\ fed = <<RestartStream, crc8(<<EnableHighPower>>), SEPARATOR>>
    /\ validated = <<>>
    /\ command_queue = <<>>

-----------------------------------------------------------------------------
(* Properties of the two crc8 functions *)

\* C25: utils.rs's crc8 and runcam.rs's crc8 return the same value for the
\* same argument: whatever either has returned for crc_arr, the other has
\* returned nothing else, and for "123456789" both return 0xBC.
C25_ChecksumsAgree ==
    /\ \A i \in 1..Len(crc_ret), j \in 1..Len(runcam_ret) : crc_ret[i] = runcam_ret[j]
    /\ \A j \in 1..Len(runcam_ret) :
           /\ runcam_ret[j] \in Byte
           /\ crc_arr = CheckString => runcam_ret[j] = 188

\* Both functions were called on the data of write_camera_control for
\* StartRecording, <<0xCC, 0x01, 0x03>>, and both returned 0x98.
C25_Witness ==
    /\ crc_arr = <<RUNCAM_HEADER, 1, 3>>
    /\ crc_ret = <<152, 152>>
    /\ runcam_ret = <<152, 152>>

====
